---- MODULE Spec2Model ----
(***************************************************************************)
(* A model of docker-volume-loopback: the volume manager                   *)
(* (src/manager/manager.go) and the plugin driver (src/driver/driver.go).  *)
(*                                                                         *)
(* The on-disk state is the data directory (backing files), the state      *)
(* directory tree (lease marker files), the mount directory tree           *)
(* (mountpoint directories) and the kernel's mount table.  Every manager   *)
(* operation is an operator from a disk to the SET of results it can have, *)
(* one per way the operating system and the external utilities can answer  *)
(* (each fallible step either works or fails).  A result carries the new   *)
(* disk, the returned error (a github.com/pkg/errors wrap chain, outermost *)
(* message first, <<>> for nil), the returned path, the utilities invoked  *)
(* in order, and the steps the environment failed.                         *)
(***************************************************************************)
EXTENDS Integers, Sequences, FiniteSets, TLC

\* ------------------------------------------------------------------ bounds

MaxConsumers == 2          \* consumer lease identifiers are 1..MaxConsumers
MaxCount == 3              \* the invocation counters of a lease cycle saturate here
NumProcs == 2              \* concurrent requests to the driver

\* ------------------------------------------------------- program constants

DriverLease == 0           \* the reserved lease "driver" of Create
NameMinRest == 1           \* NamePattern: [\w\-]{1,250}
NameMaxRest == 250
MinSize == 10000000        \* sizeInBytes < 10e6
BlockSize == 1000000       \* bs := int64(1000000)

ConsumerIds == 1..MaxConsumers
LeaseIds == ConsumerIds \cup {DriverLease}

\* MkFsOptions and MountOptions have the same keys: the supported filesystems.
MkFsOptions == [ext4 |-> <<"-F">>, xfs |-> <<>>]
MountOptions == [ext4 |-> <<>>, xfs |-> <<"-o", "nouuid">>]

\* ------------------------------------------------------------------ names

\* A name is a sequence of characters.  The alphabet of the model is a few
\* characters of each class of NamePattern.
Alnum == {"d", "b", "2"}
WordChars == Alnum \cup {"_"}

ValidNames == {<<"d", "b">>}
BadNames == {<<>>, <<"d">>, <<"d", ".">>}
Names == ValidNames \cup BadNames

\* ----------------------------------------------------------------- errors

Nil == <<>>
Errorf(msg) == <<msg>>
\* errors.Wrapf returns nil when the error it is given is nil.
Wrapf(err, msg) == IF err = Nil THEN Nil ELSE <<msg>> \o err
Cause(err) == err[Len(err)]

NameMatches(name) ==
    /\ Len(name) >= 1
    /\ name[1] \in Alnum
    /\ (Len(name) - 1) \in NameMinRest..NameMaxRest
    /\ \A i \in 2..Len(name) : name[i] \in WordChars \cup {"-"}

validateName(name) ==
    IF name = <<>> THEN Errorf("InvalidName")
    ELSE IF ~NameMatches(name) THEN Errorf("InvalidName")
    ELSE Nil

\* ------------------------------------------------------------------- disk

VARIABLES
    dataDir,      \* TRUE when the data directory exists
    files,        \* the regular files of the data directory: [path, size]
    stateDirs,    \* the names n for which <stateDir>/<n> exists
    leases,       \* the lease markers: <<n, id>> is <stateDir>/<n>/<id>
    mountDirs,    \* the names n for which <mountDir>/<n> exists
    mounted,      \* the names n with a filesystem mounted at <mountDir>/<n>
    last,         \* the last manager call and what it returned
    cycle,        \* per volume: the calls of the running mount/unmount cycle
    mutex,        \* the sync.Mutex of the Driver the plugin handler holds
    pc,           \* per driver request: where it is
    req,          \* per driver request: the request and what it returns
    locked        \* per driver request: the sync.Mutex of its receiver d

diskVars == <<dataDir, files, stateDirs, leases, mountDirs, mounted>>
driverVars == <<mutex, pc, req, locked>>
vars == <<dataDir, files, stateDirs, leases, mountDirs, mounted, last, cycle,
          mutex, pc, req, locked>>

Disk == [dataDir |-> dataDir, files |-> files, stateDirs |-> stateDirs,
         leases |-> leases, mountDirs |-> mountDirs, mounted |-> mounted]

EmptyDisk == [dataDir |-> FALSE, files |-> {}, stateDirs |-> {}, leases |-> {},
              mountDirs |-> {}, mounted |-> {}]

LeasesOf(d, name) == {l \in LeaseIds : <<name, l>> \in d.leases}

\* filepath.Join(m.dataDir, name+"."+fs), relative to the data directory
DataFilePath(name, fs) == name \o <<".", fs>>
\* filepath.Join(m.mountDir, name)
MountPointPath(name) == <<"mountDir", "/">> \o name
NoPath == <<>>

\* filepath.Glob(<dataDir>/<name>.*): the files whose name starts with name + "."
Glob(d, name) ==
    {f \in d.files : /\ Len(f.path) >= Len(name) + 1
                     /\ SubSeq(f.path, 1, Len(name) + 1) = name \o <<".">>}

\* strings.TrimLeft(filepath.Ext(path), "."): what follows the last dot
ExtOf(path) == path[Len(path)]

\* A faulty variant: a volume is made up when nothing matches
getVolume_Lenient(d, name) ==
    [err |-> Nil,
     vol |-> [Name |-> name, Fs |-> "ext4", MaxSizeInBytes |-> 0,
              DataFilePath |-> DataFilePath(name, "ext4"),
              MountPointPath |-> MountPointPath(name)]]

getVolume(d, name) ==
    LET matches == Glob(d, name) IN
    IF Cardinality(matches) > 1
    THEN [err |-> Errorf("AmbiguousVolumeState"), vol |-> [Name |-> name]]
    ELSE IF Cardinality(matches) = 0
    THEN [err |-> Errorf("VolumeNotFound"), vol |-> [Name |-> name]]
    ELSE LET f == CHOOSE m \in matches : TRUE IN
         [err |-> Nil,
          vol |-> [Name |-> name,
                   Fs |-> ExtOf(f.path),
                   MaxSizeInBytes |-> f.size,
                   DataFilePath |-> f.path,
                   MountPointPath |-> MountPointPath(name)]]

\* Volume.IsMounted: at least one lease marker in the state directory; an
\* absent state directory is zero leases.  ok = FALSE: reading it fails.
IsMounted(d, vol, ok) ==
    IF ok THEN [mounted |-> LeasesOf(d, vol.Name) # {}, err |-> Nil]
    ELSE [mounted |-> FALSE, err |-> Errorf("EIO")]

\* ---------------------------------------------------------------- results

Res(d, err, path, calls, flt) ==
    [d |-> d, err |-> err, path |-> path, calls |-> calls, flt |-> flt]

\* r, then r2 from r's disk
Then(r, r2) == Res(r2.d, r2.err, r2.path, r.calls \o r2.calls, r.flt \cup r2.flt)

Invoked(r, util) == \E i \in 1..Len(r.calls) : r.calls[i] = util
CountOf(calls, util) == Cardinality({i \in 1..Len(calls) : calls[i] = util})

\* What the environment can answer to one fallible step.
Answers == BOOLEAN
Flt(ok, point) == IF ok THEN {} ELSE {point}

\* ------------------------------------------------- steps on the filesystem

\* os.MkdirAll(vol.StateDir, 0755)
MkStateDir(d, name) == [d EXCEPT !.stateDirs = @ \cup {name}]
\* os.Create(leaseFile)
CreateLease(d, name, lease) == [d EXCEPT !.leases = @ \cup {<<name, lease>>}]
\* A faulty variant: the marker is left where it is
RemoveLease_Skip(d, name, lease) == d
\* os.Remove(leaseFile)
RemoveLease(d, name, lease) == [d EXCEPT !.leases = @ \ {<<name, lease>>}]
\* A faulty variant: a missing marker is no error, as with rm -f
LeaseRemovable_Force(d, name, lease, ok) == ok
\* os.Remove(leaseFile) works: the marker is there (ENOENT otherwise)
LeaseRemovable(d, name, lease, ok) == ok /\ <<name, lease>> \in d.leases
\* os.Mkdir(vol.MountPointPath, 0777) works: the directory is not there (EEXIST)
MountPointCreatable(d, name, ok) == ok /\ name \notin d.mountDirs
MkMountPoint(d, name) == [d EXCEPT !.mountDirs = @ \cup {name}]
\* mount <flags> vol.DataFilePath vol.MountPointPath
MountUtility(d, name) == [d EXCEPT !.mounted = @ \cup {name}]
\* A faulty variant: the state directory is left where it is
RemoveStateDir_Skip(d, name) == d
\* os.RemoveAll(vol.StateDir): the directory and whatever it holds
RemoveStateDir(d, name) ==
    [d EXCEPT !.stateDirs = @ \ {name}, !.leases = {x \in @ : x[1] # name}]
\* umount -ld vol.MountPointPath works: something is mounted there
Unmountable(d, name, ok) == ok /\ name \in d.mounted
UmountUtility(d, name) == [d EXCEPT !.mounted = @ \ {name}]
\* A faulty variant: the data directory is emptied with the mountpoint
RemoveMountPoint_WithData(d, name) ==
    [d EXCEPT !.mountDirs = @ \ {name}, !.files = {}]
\* A faulty variant: the mountpoint directory is left behind
RemoveMountPoint_Skip(d, name) == d
\* os.RemoveAll(vol.MountPointPath)
RemoveMountPoint(d, name) == [d EXCEPT !.mountDirs = @ \ {name}]

\* Faulty variants: the mount status is not consulted
NeedsMount_Always(im) == TRUE
NeedsUnmount_Always(im) == TRUE
InUse_Never(im) == FALSE
\* if !isAlreadyMounted
NeedsMount(im) == ~im.mounted
\* if !isMountedSomewhereElse
NeedsUnmount(im) == ~im.mounted
\* if isMounted
InUse(im) == im.mounted

\* ------------------------------------------------------------------ Mount

MountPoints == {"readdir", "mkdirState", "statLease", "createLease",
                "mkdirMount", "mount", "rmLease"}

\* Manager.Mount once the volume is resolved and its mount status im read
\* ("checking mount status early before we record a lease"); a[p] is the
\* environment's answer to the fallible step p.
MountSteps(d, vol, lease, im, a) ==
    LET name == vol.Name
        needDir == name \notin d.stateDirs
        d1 == IF needDir THEN MkStateDir(d, name) ELSE d
        d2 == CreateLease(d1, name, lease)
        d3 == MkMountPoint(d2, name)
        d4 == MountUtility(d3, name)
        \* _ = os.Remove(leaseFile): the error is dropped
        Cleanup(x) == IF LeaseRemovable(x, name, lease, a.rmLease)
                      THEN RemoveLease(x, name, lease) ELSE x
        fRm == Flt(a.rmLease, "rmLease")
    IN
    IF im.err # Nil
    THEN Res(d, Wrapf(im.err, "cannot check its mount status"), NoPath, <<>>,
             {"readdir"})
    ELSE IF needDir /\ ~a.mkdirState
    THEN Res(d, Wrapf(Errorf("EIO"), "cannot create its state dir"), NoPath, <<>>,
             {"mkdirState"})
    ELSE IF ~a.statLease
    THEN Res(d1, Wrapf(Errorf("EIO"), "cannot access lease file"), NoPath, <<>>,
             {"statLease"})
    ELSE IF ~a.createLease
    THEN Res(d1, Wrapf(Errorf("EIO"), "cannot create lease file"), NoPath, <<>>,
             {"createLease"})
    ELSE IF NeedsMount(im)
    THEN IF ~MountPointCreatable(d2, name, a.mkdirMount)
         THEN Res(Cleanup(d2),
                  Wrapf(Errorf(IF a.mkdirMount THEN "EEXIST" ELSE "EIO"),
                        "cannot create mount point dir"),
                  NoPath, <<>>, Flt(a.mkdirMount, "mkdirMount") \cup fRm)
         ELSE IF ~a.mount
         THEN Res(Cleanup(d3), Wrapf(Errorf("exit"), "cannot mount data file"),
                  NoPath, <<"mount">>, {"mount"} \cup fRm)
         ELSE Res(d4, Nil, vol.MountPointPath, <<"mount">>, {})
    ELSE Res(d2, Nil, vol.MountPointPath, <<>>, {})

MountR(d, name, lease) ==
    LET verr == validateName(name)
        gv == getVolume(d, name)
    IN
    IF verr # Nil
    THEN {Res(d, Wrapf(verr, "invalid volume name"), NoPath, <<>>, {})}
    ELSE IF gv.err # Nil
    THEN {Res(d, Wrapf(gv.err, "cannot get its metadata"), NoPath, <<>>, {})}
    ELSE {MountSteps(d, gv.vol, lease, IsMounted(d, gv.vol, a.readdir), a)
          : a \in [MountPoints -> Answers]}

\* ---------------------------------------------------------------- UnMount

UnMountPoints == {"rmLease", "readdir", "rmStateDir", "umount", "rmMountDir"}

\* The release of the lease: os.Remove(leaseFile)
UnMountRelease(d, vol, lease, ok) ==
    LET name == vol.Name
        held == <<name, lease>> \in d.leases
    IN
    IF ~LeaseRemovable(d, name, lease, ok)
    THEN Res(d, Wrapf(Errorf(IF held THEN "EIO" ELSE "ENOENT"), "cannot find lease"),
             NoPath, <<>>, IF held THEN {"rmLease"} ELSE {})
    ELSE Res(RemoveLease(d, name, lease), Nil, NoPath, <<>>, {})

\* Manager.UnMount once the lease marker is removed
UnMountFinal(d1, vol, a) ==
    LET name == vol.Name
        im == IsMounted(d1, vol, a.readdir)
        d2 == RemoveStateDir(d1, name)
        d3 == UmountUtility(d2, name)
        d4 == RemoveMountPoint(d3, name)
    IN
    IF im.err # Nil
    THEN Res(d1, Wrapf(im.err, "cannot figure out if it's used somewhere else"),
             NoPath, <<>>, {"readdir"})
    ELSE IF NeedsUnmount(im)
    THEN IF ~a.rmStateDir
         THEN Res(d1, Wrapf(Errorf("EIO"), "cannot remove its state dir"),
                  NoPath, <<>>, {"rmStateDir"})
         ELSE IF ~Unmountable(d2, name, a.umount)
         THEN Res(d2, Wrapf(Errorf("exit"), "cannot unmount data file"),
                  NoPath, <<"umount">>, Flt(a.umount, "umount"))
         ELSE IF ~a.rmMountDir
         THEN Res(d3, Wrapf(Errorf("EIO"), "cannot remove mount point dir"),
                  NoPath, <<"umount">>, {"rmMountDir"})
         ELSE Res(d4, Nil, NoPath, <<"umount">>, {})
    ELSE Res(d1, Nil, NoPath, <<>>, {})

UnMountSteps(d, vol, lease, a) ==
    LET rel == UnMountRelease(d, vol, lease, a.rmLease) IN
    IF rel.err # Nil THEN rel ELSE Then(rel, UnMountFinal(rel.d, vol, a))

UnMountR(d, name, lease) ==
    LET verr == validateName(name)
        gv == getVolume(d, name)
    IN
    IF verr # Nil
    THEN {Res(d, Wrapf(verr, "invalid volume name"), NoPath, <<>>, {})}
    ELSE IF gv.err # Nil
    THEN {Res(d, Wrapf(gv.err, "cannot get its metadata"), NoPath, <<>>, {})}
    ELSE {UnMountSteps(d, gv.vol, lease, a) : a \in [UnMountPoints -> Answers]}

\* -------------------------------------------------------------- Get, Delete

GetR(d, name) ==
    LET verr == validateName(name)
        gv == getVolume(d, name)
    IN
    IF verr # Nil
    THEN [err |-> Wrapf(verr, "invalid volume name"), vol |-> gv.vol]
    ELSE gv

\* os.Remove(path) of a data file
DeleteFile(d, path) == [d EXCEPT !.files = {f \in @ : f.path # path}]

DeletePoints == {"readdir", "rmData"}

DeleteSteps(d, vol, a) ==
    LET im == IsMounted(d, vol, a.readdir) IN
    IF im.err # Nil
    THEN Res(d, Wrapf(im.err, "cannot get its mount status"), NoPath, <<>>,
             {"readdir"})
    ELSE IF InUse(im)
    \* err is nil here, and it is what gets wrapped
    THEN Res(d, Wrapf(im.err, "still in use"), NoPath, <<>>, {})
    ELSE IF ~a.rmData
    THEN Res(d, Wrapf(Errorf("EIO"), "cannot delete"), NoPath, <<>>, {"rmData"})
    ELSE Res(DeleteFile(d, vol.DataFilePath), Nil, NoPath, <<>>, {})

DeleteR(d, name) ==
    LET verr == validateName(name)
        g == GetR(d, name)
    IN
    IF verr # Nil
    THEN {Res(d, Wrapf(verr, "invalid volume name"), NoPath, <<>>, {})}
    ELSE IF g.err # Nil
    THEN {Res(d, Wrapf(g.err, "cannot get its metadata"), NoPath, <<>>, {})}
    ELSE {DeleteSteps(d, g.vol, a) : a \in [DeletePoints -> Answers]}

\* ----------------------------------------------------------------- Create

\* What Create is asked for.  A size above the minimum that is not a multiple
\* of the block size, sparse or not, for each supported filesystem; the same
\* with root ownership settings (only a uid; uid, gid and mode); and one
\* request each at the minimum size, below it, and for a filesystem that is not
\* supported.
NoOwner == [uid |-> -1, gid |-> -1, mode |-> 0]
Owners == {[uid |-> 0, gid |-> -1, mode |-> 0],
           [uid |-> 0, gid |-> 0, mode |-> 493]}
CreateArgs ==
    [size : {MinSize + BlockSize \div 2}, sparse : BOOLEAN,
     fs : DOMAIN MkFsOptions, own : {NoOwner}]
    \cup [size : {MinSize + BlockSize \div 2}, sparse : {FALSE},
          fs : {"ext4"}, own : Owners]
    \cup {[size |-> MinSize, sparse |-> TRUE, fs |-> "ext4", own |-> NoOwner],
          [size |-> MinSize - 1, sparse |-> TRUE, fs |-> "ext4", own |-> NoOwner],
          [size |-> MinSize + BlockSize \div 2, sparse |-> FALSE, fs |-> "btrfs",
           own |-> NoOwner]}

Max(a, b) == IF a >= b THEN a ELSE b

WriteFile(d, path, size) ==
    [d EXCEPT !.files = {f \in @ : f.path # path} \cup {[path |-> path, size |-> size]}]
\* A faulty variant: no cleanup of the data file
RemoveFile_Skip(d, path, ok) == d
\* _ = os.Remove(dataFilePath): the error is dropped
RemoveFile(d, path, ok) == IF ok THEN DeleteFile(d, path) ELSE d

\* The allocation of the data file.  A utility that fails leaves the file it
\* opened: an empty one, or the one that was there.
Allocate(d, path, size, sparse) ==
    LET existing == {f \in d.files : f.path = path}
        old == IF existing = {} THEN 0 ELSE (CHOOSE f \in existing : TRUE).size
        partial == IF existing = {} THEN WriteFile(d, path, 0) ELSE d
    IN
    IF sparse
    THEN {Res(WriteFile(d, path, size), Nil, NoPath, <<"truncate">>, {})}
         \cup {Res(RemoveFile(partial, path, ok),
                   Wrapf(Errorf("exit"), "error creating sparse data file"),
                   NoPath, <<"truncate">>, {"truncate"} \cup Flt(ok, "rmData"))
               : ok \in Answers}
    ELSE {Res(WriteFile(d, path, Max(old, size)), Nil, NoPath, <<"fallocate">>, {})}
         \cup {Res(RemoveFile(partial, path, ok),
                   Wrapf(Errorf("exit"), "not enough disk space"),
                   NoPath, <<"fallocate">>, {"fallocateNoSpace"} \cup Flt(ok, "rmData"))
               : ok \in Answers}
         \cup {Res(WriteFile(d, path, (size \div BlockSize) * BlockSize), Nil,
                   NoPath, <<"fallocate", "dd">>, {"fallocate"})}
         \cup {Res(RemoveFile(partial, path, ok),
                   Wrapf(Errorf("exit"), "zero-fill failed"),
                   NoPath, <<"fallocate", "dd">>,
                   {"fallocate", "dd"} \cup Flt(ok, "rmData"))
               : ok \in Answers}

\* mkfs.<fs> on the allocated file
Format(d, path) ==
    {Res(d, Nil, NoPath, <<"mkfs">>, {})}
    \cup {Res(RemoveFile(d, path, ok),
              Wrapf(Errorf("exit"), "cannot format datafile"),
              NoPath, <<"mkfs">>, {"mkfs"} \cup Flt(ok, "rmData"))
          : ok \in Answers}

\* A faulty variant: the failure is returned without the unmount
Abandon_NoUnmount(d, name, path, msg, calls, point) ==
    {Res(RemoveFile(d, path, ok), Wrapf(Errorf("exit"), msg), NoPath, calls,
         {point} \cup Flt(ok, "rmData"))
     : ok \in Answers}

\* What Create does on a failure after its Mount: unmount (error dropped), then
\* remove the data file (error dropped), and return the failure.
Abandon(d, name, path, msg, calls, point) ==
    {Then(Res(d, Nil, NoPath, calls, {point}),
          Then(ur, Res(RemoveFile(ur.d, path, ok), Wrapf(Errorf("exit"), msg),
                       NoPath, <<>>, Flt(ok, "rmData"))))
     : ur \in UnMountR(d, name, DriverLease), ok \in Answers}

\* chmod and os.Chown on the mounted root, then the unmount
Adjust(d, name, path, own) ==
    LET chmod == IF own.mode > 0 THEN <<"chmod">> ELSE <<>>
        chown == own.uid >= 0 \/ own.gid >= 0
        unmounted ==
            UNION {IF ur.err # Nil
                   THEN {Then(Res(d, Nil, NoPath, chmod, {}),
                              Then(ur, Res(RemoveFile(ur.d, path, ok),
                                           Wrapf(ur.err, "cannot unmount volume after adjusting"),
                                           NoPath, <<>>, Flt(ok, "rmData"))))
                         : ok \in Answers}
                   ELSE {Then(Res(d, Nil, NoPath, chmod, {}), ur)}
                   : ur \in UnMountR(d, name, DriverLease)}
    IN
    (IF own.mode > 0
     THEN Abandon(d, name, path, "cannot adjust volume root permissions",
                  chmod, "chmod")
     ELSE {})
    \cup (IF chown
          THEN Abandon(d, name, path, "cannot adjust volume root owner",
                       chmod, "chown")
          ELSE {})
    \cup unmounted

\* The last step of Create: root owner and mode, through a mount under the
\* lease "driver".
Ownership(d, name, path, own) ==
    IF own.uid >= 0 \/ own.gid >= 0 \/ own.mode > 0
    THEN UNION {IF mr.err # Nil
                THEN {Then(mr, Res(RemoveFile(mr.d, path, ok),
                                   Wrapf(mr.err, "cannot mount volume to adjust"),
                                   NoPath, <<>>, Flt(ok, "rmData")))
                      : ok \in Answers}
                ELSE {Then(Res(mr.d, Nil, NoPath, mr.calls, mr.flt), x)
                      : x \in Adjust(mr.d, name, path, own)}
                : mr \in MountR(d, name, DriverLease)}
    ELSE {Res(d, Nil, NoPath, <<>>, {})}

\* A faulty variant: no minimum size
SizeTooSmall_Never(size) == FALSE
\* sizeInBytes < 10e6
SizeTooSmall(size) == size < MinSize
\* mkfsFlags, ok := MkFsOptions[fs]
Supported(fs) == fs \in DOMAIN MkFsOptions

\* A stage of Create after the stage that gave r: nothing when r failed.
Stage(r, next) == IF r.err # Nil THEN {r} ELSE {Then(r, x) : x \in next}

CreateR(d, name, args) ==
    LET verr == validateName(name)
        path == DataFilePath(name, args.fs)
        d1 == [d EXCEPT !.dataDir = TRUE]
    IN
    IF verr # Nil
    THEN {Res(d, Wrapf(verr, "invalid volume name"), NoPath, <<>>, {})}
    ELSE IF SizeTooSmall(args.size)
    THEN {Res(d, Errorf("requested size is smaller than minimum"), NoPath, <<>>, {})}
    ELSE IF ~Supported(args.fs)
    THEN {Res(d, Errorf("only xfs and ext4 filesystems are supported"), NoPath, <<>>, {})}
    ELSE {Res(d, Wrapf(Errorf("EIO"), "cannot create data dir"), NoPath, <<>>,
              {"mkdirData"})}
         \cup UNION {UNION {Stage(fr, Ownership(fr.d, name, path, args.own))
                            : fr \in Stage(al, Format(al.d, path))}
                     : al \in Allocate(d1, path, args.size, args.sparse)}

\* ------------------------------------------------------------------- List

\* strings.TrimSuffix(file.Name(), filepath.Ext(file.Name()))
TrimExt(path) == SubSeq(path, 1, Len(path) - 2)

ListR(d) ==
    LET names == {TrimExt(f.path) : f \in d.files}
        bad == {n \in names : getVolume(d, n).err # Nil}
    IN
    IF ~d.dataDir
    THEN [err |-> Wrapf(Errorf("ENOENT"), "cannot list data dir"), vols |-> {}]
    ELSE IF bad # {}
    THEN [err |-> getVolume(d, CHOOSE n \in bad : TRUE).err, vols |-> {}]
    ELSE [err |-> Nil, vols |-> {getVolume(d, n).vol : n \in names}]

\* ------------------------------------------------- the calls and their record

\* A freshly created volume: one backing file and nothing else.
Fresh(d, name) ==
    /\ Cardinality(Glob(d, name)) = 1
    /\ name \notin d.stateDirs
    /\ LeasesOf(d, name) = {}
    /\ name \notin d.mountDirs
    /\ name \notin d.mounted

NoCycle == [phase |-> "off", acquired |-> 0, mounts |-> 0, umounts |-> 0,
            fresh |-> FALSE]
Capped(n) == IF n > MaxCount THEN MaxCount ELSE n

\* The cycle of a volume after a call on it: successful Mounts under lease
\* identifiers not yet held, starting from zero leases, then successful
\* UnMounts.  Any other changing call on the volume ends the cycle.
CycleAfter(c, d, op, name, lease, r) ==
    IF op = "Mount" /\ r.err = Nil /\ lease \notin LeasesOf(d, name)
    THEN IF LeasesOf(d, name) = {}
         THEN [phase |-> "up", acquired |-> 1,
               mounts |-> CountOf(r.calls, "mount"), umounts |-> 0,
               fresh |-> Fresh(d, name)]
         ELSE IF c.phase = "up"
         THEN [c EXCEPT !.acquired = Capped(@ + 1),
                        !.mounts = Capped(@ + CountOf(r.calls, "mount"))]
         ELSE NoCycle
    ELSE IF op = "UnMount" /\ r.err = Nil /\ c.phase \in {"up", "down"}
    THEN [c EXCEPT !.phase = "down",
                   !.umounts = Capped(@ + CountOf(r.calls, "umount"))]
    ELSE NoCycle

NoCall == [op |-> "none", name |-> <<>>, lease |-> {}, err |-> Nil, path |-> NoPath,
           calls |-> <<>>, pre |-> {}, vols |-> {}]

\* A changing manager call (Create, Mount, UnMount, Delete) returns r.
Returns(op, name, lease, r) ==
    /\ dataDir' = r.d.dataDir
    /\ files' = r.d.files
    /\ stateDirs' = r.d.stateDirs
    /\ leases' = r.d.leases
    /\ mountDirs' = r.d.mountDirs
    /\ mounted' = r.d.mounted
    /\ last' = [op |-> op, name |-> name, lease |-> lease, err |-> r.err,
                path |-> r.path, calls |-> r.calls, pre |-> LeasesOf(Disk, name),
                vols |-> {}]
    /\ cycle' = IF name \in ValidNames
                THEN [cycle EXCEPT ![name] =
                         CycleAfter(@, Disk, op, name,
                                    IF lease = {} THEN DriverLease
                                    ELSE CHOOSE l \in lease : TRUE, r)]
                ELSE cycle

\* A reading manager call (Get, List) returns.
Reads(op, name, err, path, vols) ==
    /\ last' = [op |-> op, name |-> name, lease |-> {}, err |-> err, path |-> path,
                calls |-> <<>>, pre |-> LeasesOf(Disk, name), vols |-> vols]
    /\ UNCHANGED <<diskVars, cycle>>

\* The results of a call in an environment that may fail any fallible step,
\* or in a reliable one, where a step fails only for what the disk holds.
Outcomes(results, reliable) ==
    IF reliable THEN {r \in results : r.flt = {}} ELSE results

ManagerCreate(name, args, reliable) ==
    \E r \in Outcomes(CreateR(Disk, name, args), reliable) :
        Returns("Create", name, {}, r)

ManagerMount(name, lease, reliable) ==
    \E r \in Outcomes(MountR(Disk, name, lease), reliable) :
        Returns("Mount", name, {lease}, r)

ManagerUnMount(name, lease, reliable) ==
    \E r \in Outcomes(UnMountR(Disk, name, lease), reliable) :
        Returns("UnMount", name, {lease}, r)

ManagerDelete(name, reliable) ==
    \E r \in Outcomes(DeleteR(Disk, name), reliable) :
        Returns("Delete", name, {}, r)

ManagerGet(name) ==
    LET g == GetR(Disk, name) IN
    Reads("Get", name, g.err, IF g.err = Nil THEN g.vol.MountPointPath ELSE NoPath, {})

ManagerList ==
    LET l == ListR(Disk) IN
    Reads("List", <<>>, l.err, NoPath, {v.Name : v \in l.vols})

\* ------------------------------------------------ the manager, call by call

Procs == 1..NumProcs

\* A request that has not resolved its volume, nor read its mount status
NoVol == [Name |-> <<>>]
NoStatus == [mounted |-> FALSE, err |-> Nil]
NoReq == [op |-> "none", name |-> <<>>, lease |-> {}, args |-> {}, vol |-> NoVol,
          im |-> NoStatus, err |-> Nil, path |-> NoPath, calls |-> <<>>]

Init ==
    /\ dataDir = FALSE
    /\ files = {}
    /\ stateDirs = {}
    /\ leases = {}
    /\ mountDirs = {}
    /\ mounted = {}
    /\ last = NoCall
    /\ cycle = [n \in ValidNames |-> NoCycle]
    /\ mutex = FALSE
    /\ pc = [p \in Procs |-> "idle"]
    /\ req = [p \in Procs |-> NoReq]
    /\ locked = [p \in Procs |-> FALSE]

Create == \E name \in Names, args \in CreateArgs :
              ManagerCreate(name, args, FALSE) /\ UNCHANGED driverVars
Mount == \E name \in Names, lease \in ConsumerIds :
              ManagerMount(name, lease, FALSE) /\ UNCHANGED driverVars
UnMount == \E name \in Names, lease \in ConsumerIds :
              ManagerUnMount(name, lease, FALSE) /\ UNCHANGED driverVars
Delete == \E name \in Names :
              ManagerDelete(name, FALSE) /\ UNCHANGED driverVars
Get == \E name \in Names : ManagerGet(name) /\ UNCHANGED driverVars
List == ManagerList /\ UNCHANGED driverVars

Next == Create \/ Mount \/ UnMount \/ Delete \/ Get \/ List

\* The manager called sequentially, every fallible step free to fail.
Spec == Init /\ [][Next]_vars

\* -------------------------------- the manager in a reliable environment

ReliableCreate == \E name \in Names, args \in CreateArgs :
              ManagerCreate(name, args, TRUE) /\ UNCHANGED driverVars
ReliableMount == \E name \in Names, lease \in ConsumerIds :
              ManagerMount(name, lease, TRUE) /\ UNCHANGED driverVars
ReliableUnMount == \E name \in Names, lease \in ConsumerIds :
              ManagerUnMount(name, lease, TRUE) /\ UNCHANGED driverVars
ReliableDelete == \E name \in Names :
              ManagerDelete(name, TRUE) /\ UNCHANGED driverVars

NextReliable ==
    ReliableCreate \/ ReliableMount \/ ReliableUnMount \/ ReliableDelete \/ Get \/ List

\* The manager called sequentially, no step failing for a reason outside the disk.
SpecReliable == Init /\ [][NextReliable]_vars

\* ------------------------------------------------------------- the driver

\* The requests of the plugin protocol that reach the manager: for the volume
\* and for the empty name.  Create's options are parsed before the lock is
\* taken; args is what the parse gave.
RequestNames == ValidNames \cup {<<>>}
RequestArgs ==
    {x \in CreateArgs : /\ x.size > MinSize
                        /\ x.fs \in DOMAIN MkFsOptions
                        /\ x.own.mode > 0 \/ (x.own = NoOwner /\ x.sparse)}
Requests ==
    [op : {"Create"}, name : RequestNames, lease : {{}},
     args : {{x} : x \in RequestArgs}]
    \cup [op : {"Mount", "Unmount"}, name : RequestNames,
          lease : {{l} : l \in ConsumerIds}, args : {{}}]
    \cup [op : {"Remove", "Get"}, name : RequestNames, lease : {{}}, args : {{}}]
    \cup [op : {"List"}, name : {<<>>}, lease : {{}}, args : {{}}]

TheOne(set) == CHOOSE x \in set : TRUE

\* A method with the value receiver (d Driver) is called: d is a copy of the
\* handler's Driver, its embedded sync.Mutex included.
DriverCall(p) ==
    /\ pc[p] = "idle"
    /\ \E q \in Requests :
         req' = [req EXCEPT ![p] = [NoReq EXCEPT !.op = q.op, !.name = q.name,
                                                 !.lease = q.lease, !.args = q.args]]
    /\ locked' = [locked EXCEPT ![p] = mutex]
    /\ pc' = [pc EXCEPT ![p] = "called"]
    /\ UNCHANGED <<diskVars, last, cycle, mutex>>

\* d.Lock(): blocks while d's mutex is locked
DriverLock(p) ==
    /\ pc[p] = "called"
    /\ ~locked[p]
    /\ locked' = [locked EXCEPT ![p] = TRUE]
    /\ pc' = [pc EXCEPT ![p] = "locked"]
    /\ UNCHANGED <<diskVars, last, cycle, mutex, req>>

SetDisk(d) ==
    /\ dataDir' = d.dataDir
    /\ files' = d.files
    /\ stateDirs' = d.stateDirs
    /\ leases' = d.leases
    /\ mountDirs' = d.mountDirs
    /\ mounted' = d.mounted

\* The manager call of request p returns r to the driver.
DriverReturns(p, r) ==
    /\ SetDisk(r.d)
    /\ req' = [req EXCEPT ![p].err = r.err, ![p].path = r.path,
                          ![p].calls = @ \o r.calls]
    /\ pc' = [pc EXCEPT ![p] = "returned"]
    /\ UNCHANGED <<last, cycle, mutex, locked>>

\* d.manager.Create, Delete, Get and List, each in one step
DriverManager(p) ==
    /\ pc[p] = "locked"
    /\ \/ /\ req[p].op = "Create"
          /\ \E r \in Outcomes(CreateR(Disk, req[p].name, TheOne(req[p].args)), TRUE) :
                 DriverReturns(p, r)
       \/ /\ req[p].op = "Remove"
          /\ \E r \in Outcomes(DeleteR(Disk, req[p].name), TRUE) : DriverReturns(p, r)
       \/ /\ req[p].op = "Get"
          /\ LET g == GetR(Disk, req[p].name) IN
             DriverReturns(p, Res(Disk, g.err,
                                  IF g.err = Nil THEN g.vol.MountPointPath ELSE NoPath,
                                  <<>>, {}))
       \/ /\ req[p].op = "List"
          /\ DriverReturns(p, Res(Disk, ListR(Disk).err, NoPath, <<>>, {}))

\* d.manager.Mount up to the read of the mount status
DriverMountBegin(p) ==
    /\ pc[p] = "locked"
    /\ req[p].op = "Mount"
    /\ LET verr == validateName(req[p].name)
           gv == getVolume(Disk, req[p].name)
       IN
       IF verr # Nil
       THEN DriverReturns(p, Res(Disk, Wrapf(verr, "invalid volume name"),
                                 NoPath, <<>>, {}))
       ELSE IF gv.err # Nil
       THEN DriverReturns(p, Res(Disk, Wrapf(gv.err, "cannot get its metadata"),
                                 NoPath, <<>>, {}))
       ELSE /\ req' = [req EXCEPT ![p].vol = gv.vol,
                                  ![p].im = IsMounted(Disk, gv.vol, TRUE)]
            /\ pc' = [pc EXCEPT ![p] = "mounting"]
            /\ UNCHANGED <<diskVars, last, cycle, mutex, locked>>

\* d.manager.Mount from the state directory on
DriverMountEnd(p) ==
    /\ pc[p] = "mounting"
    /\ \E r \in Outcomes({MountSteps(Disk, req[p].vol, TheOne(req[p].lease),
                                     req[p].im, a)
                          : a \in [MountPoints -> Answers]}, TRUE) :
           DriverReturns(p, r)

\* d.manager.UnMount up to the removal of the lease marker
DriverUnmountBegin(p) ==
    /\ pc[p] = "locked"
    /\ req[p].op = "Unmount"
    /\ LET verr == validateName(req[p].name)
           gv == getVolume(Disk, req[p].name)
           rel == UnMountRelease(Disk, gv.vol, TheOne(req[p].lease), TRUE)
       IN
       IF verr # Nil
       THEN DriverReturns(p, Res(Disk, Wrapf(verr, "invalid volume name"),
                                 NoPath, <<>>, {}))
       ELSE IF gv.err # Nil
       THEN DriverReturns(p, Res(Disk, Wrapf(gv.err, "cannot get its metadata"),
                                 NoPath, <<>>, {}))
       ELSE IF rel.err # Nil
       THEN DriverReturns(p, rel)
       ELSE /\ SetDisk(rel.d)
            /\ req' = [req EXCEPT ![p].vol = gv.vol]
            /\ pc' = [pc EXCEPT ![p] = "unmounting"]
            /\ UNCHANGED <<last, cycle, mutex, locked>>

\* d.manager.UnMount from the read of the mount status on
DriverUnmountEnd(p) ==
    /\ pc[p] = "unmounting"
    /\ \E r \in Outcomes({UnMountFinal(Disk, req[p].vol, a)
                          : a \in [UnMountPoints -> Answers]}, TRUE) :
           DriverReturns(p, r)

\* defer d.Unlock(), and the response is sent
DriverUnlock(p) ==
    /\ pc[p] = "returned"
    /\ locked' = [locked EXCEPT ![p] = FALSE]
    /\ pc' = [pc EXCEPT ![p] = "idle"]
    /\ req' = [req EXCEPT ![p] = NoReq]
    /\ UNCHANGED <<diskVars, last, cycle, mutex>>

NextDriver ==
    \E p \in Procs :
        \/ DriverCall(p)
        \/ DriverLock(p)
        \/ DriverManager(p)
        \/ DriverMountBegin(p)
        \/ DriverMountEnd(p)
        \/ DriverUnmountBegin(p)
        \/ DriverUnmountEnd(p)
        \/ DriverUnlock(p)

\* Concurrent requests to the driver, in a reliable environment.
SpecDriver == Init /\ [][NextDriver]_vars

\* Request p is between its d.Lock() and its d.Unlock().
InCriticalSection(p) == pc[p] \in {"locked", "mounting", "unmounting", "returned"}

\* ------------------------------------------------------------------ claims

Existing(name) == getVolume(Disk, name).err = Nil
Held(name) == LeasesOf(Disk, name)

\* C1: the mount utility is invoked only by a Mount that finds zero leases
\* before it records its own, and a successful Mount that finds zero leases
\* invokes it; the umount utility is invoked only by an UnMount that releases
\* the only lease held and leaves zero, and a successful UnMount that leaves
\* zero invokes it; every other successful Mount or UnMount changes nothing but
\* its own lease marker; and a cycle of successful Mounts under distinct lease
\* identifiers, from zero leases, followed by successful UnMounts down to zero
\* leases, has invoked mount exactly once and umount exactly once.
C1_OneMountOneUnmount ==
    \A name \in ValidNames :
        /\ \A lease \in ConsumerIds :
            /\ \A r \in MountR(Disk, name, lease) :
                /\ Invoked(r, "mount") => Held(name) = {}
                /\ r.err = Nil =>
                     /\ Invoked(r, "mount") <=> Held(name) = {}
                     /\ ~Invoked(r, "mount") => r.d = CreateLease(Disk, name, lease)
            /\ \A r \in UnMountR(Disk, name, lease) :
                /\ Invoked(r, "umount") =>
                     Held(name) = {lease} /\ LeasesOf(r.d, name) = {}
                /\ r.err = Nil =>
                     /\ LeasesOf(r.d, name) = Held(name) \ {lease}
                     /\ Invoked(r, "umount") <=> LeasesOf(r.d, name) = {}
                     /\ ~Invoked(r, "umount") => r.d = RemoveLease(Disk, name, lease)
        /\ (cycle[name].phase = "down" /\ Held(name) = {}) =>
               cycle[name].mounts = 1 /\ cycle[name].umounts = 1

\* C1 witness: a cycle that acquired every consumer lease and released them all
\* has just ended with the UnMount that invoked umount.
C1_Witness ==
    \E name \in ValidNames :
        /\ cycle[name].phase = "down"
        /\ cycle[name].acquired = MaxConsumers
        /\ Held(name) = {}
        /\ last.op = "UnMount" /\ last.err = Nil /\ last.calls = <<"umount">>

\* C2: a Delete of a volume with at least one lease marker returns an error.
C2_DeleteInUseFails ==
    (last.op = "Delete" /\ last.name \in ValidNames /\ last.pre # {}) =>
        last.err # Nil

\* C3: a Delete of a volume with at least one lease marker changes nothing on
\* the disk: a Delete that removes a backing file found zero leases.
C3_DeleteInUseChangesNothing ==
    \A name \in Names :
        \A r \in DeleteR(Disk, name) :
            /\ Held(name) # {} => r.d = Disk
            /\ r.d.files # Disk.files => Held(name) = {}

\* C3 witness: Delete was called on an existing volume with a lease held.
C3_Witness ==
    /\ last.op = "Delete"
    /\ last.pre # {}
    /\ Existing(last.name)

\* C4: the mountpoint directory exists iff the lease count is above zero.
C4_MountPointIffLeased ==
    \A name \in ValidNames : name \in mountDirs <=> Held(name) # {}

StateDirIffLeased ==
    \A name \in ValidNames : name \notin stateDirs <=> Held(name) = {}

\* C5: a Mount or UnMount call, failed ones included, leaves the state
\* directory absent iff there is no lease marker, when it found it so.
C5_StateDirIffLeased ==
    [][(StateDirIffLeased /\ last'.op \in {"Mount", "UnMount"})
         => StateDirIffLeased']_vars

\* C6: the data directory holds at most one backing file per volume name.
C6_OneBackingFile ==
    \A name \in ValidNames : Cardinality(Glob(Disk, name)) <= 1

\* C7: no two driver requests are between Lock and Unlock at the same time.
C7_MutualExclusion ==
    \A p, q \in Procs : (InCriticalSection(p) /\ InCriticalSection(q)) => p = q

\* C8: a Mount under a lease identifier that is already recorded leaves the
\* lease markers as they are and does not invoke mount, whatever it returns; in
\* a reliable environment it changes nothing on the disk and returns
\* <mountDir>/<name>, which is what every successful Mount returns.
C8_MountIdempotent ==
    \A name \in ValidNames, lease \in ConsumerIds :
        \A r \in MountR(Disk, name, lease) :
            /\ r.err = Nil => r.path = MountPointPath(name)
            /\ lease \in Held(name) =>
                 /\ r.d.leases = Disk.leases
                 /\ ~Invoked(r, "mount")
                 /\ (r.flt = {} /\ Existing(name)) => (r.err = Nil /\ r.d = Disk)

\* C8 witness: a Mount under a lease that was already recorded has returned.
C8_Witness ==
    /\ last.op = "Mount"
    /\ last.lease # {} /\ last.lease \subseteq last.pre
    /\ last.err = Nil
    /\ last.path = MountPointPath(last.name)

\* C9: an UnMount of an existing volume under a lease identifier that is not
\* recorded fails with "cannot find lease", invokes no utility and changes
\* nothing on the disk.
C9_UnknownLease ==
    \A name \in ValidNames, lease \in ConsumerIds :
        (Existing(name) /\ lease \notin Held(name)) =>
            \A r \in UnMountR(Disk, name, lease) :
                /\ r.err # Nil /\ Head(r.err) = "cannot find lease"
                /\ r.calls = <<>>
                /\ r.d = Disk

\* C9 witness: such an UnMount has failed while another lease was held.
C9_Witness ==
    /\ last.op = "UnMount"
    /\ last.lease # {} /\ last.lease \cap last.pre = {}
    /\ last.pre # {}
    /\ last.err # Nil /\ Head(last.err) = "cannot find lease"
    /\ Existing(last.name)

\* C10: when a cycle that started on a freshly created volume has ended, the
\* volume is freshly created again (zero leases, no state directory, no
\* mountpoint directory, nothing mounted), and a Delete in a reliable
\* environment succeeds and removes the backing file.
C10_BackToFresh ==
    \A name \in ValidNames :
        (cycle[name].phase = "down" /\ cycle[name].fresh /\ Held(name) = {}) =>
            /\ Fresh(Disk, name)
            /\ \A r \in DeleteR(Disk, name) :
                   r.flt = {} => (r.err = Nil /\ Glob(r.d, name) = {})

\* C10 witness: such a cycle over every consumer lease has ended.
C10_Witness ==
    \E name \in ValidNames :
        /\ cycle[name].phase = "down" /\ cycle[name].fresh
        /\ cycle[name].acquired = MaxConsumers
        /\ Held(name) = {}
        /\ last.op = "UnMount" /\ last.err = Nil

\* C11: right after a successful Create(name), List succeeds and its result
\* holds a volume named name; right after a successful Delete(name), the result
\* of List holds no volume named name.
C11_ListRoundTrip ==
    LET l == ListR(Disk)
        listed == {v.Name : v \in l.vols}
    IN
    /\ (last.op = "Create" /\ last.err = Nil) =>
           (l.err = Nil /\ last.name \in listed)
    /\ (last.op = "Delete" /\ last.err = Nil) => last.name \notin listed

\* The size Get reports after Create(size, sparse) went through the utilities
\* in calls: the requested one, or whole blocks of it after the zero-fill.
ExpectedSize(size, calls) ==
    IF CountOf(calls, "dd") > 0 THEN (size \div BlockSize) * BlockSize ELSE size

\* C12: a successful Create(name, size, fs), for a valid name, a size of at
\* least the minimum and a supported filesystem, is followed by a Get(name)
\* that succeeds and reports the requested filesystem and the requested size
\* (whole blocks of it, at most one block short, after the zero-fill fallback).
C12_CreateThenGet ==
    \A name \in ValidNames, args \in CreateArgs :
        \A r \in CreateR(Disk, name, args) :
            r.err = Nil =>
                LET g == GetR(r.d, name) IN
                /\ g.err = Nil
                /\ g.vol.Fs = args.fs
                /\ g.vol.MaxSizeInBytes = ExpectedSize(args.size, r.calls)
                /\ g.vol.MaxSizeInBytes <= args.size
                /\ args.size - g.vol.MaxSizeInBytes < BlockSize

\* Requests that Create rejects: a size below the minimum, with a supported
\* filesystem or not, and an unsupported filesystem with a sufficient size.
RejectedArgs ==
    [size : {0, MinSize - 1}, sparse : BOOLEAN, fs : {"ext4", "btrfs"},
     own : {NoOwner} \cup Owners]
    \cup [size : {MinSize}, sparse : BOOLEAN, fs : {"btrfs", "ext3"},
          own : {NoOwner} \cup Owners]

\* C13: Create with a size below the minimum fails with "requested size is
\* smaller than minimum", and Create with a sufficient size and an unsupported
\* filesystem fails with "only xfs and ext4 filesystems are supported"; both
\* invoke no utility and leave the disk, the data directory included, as it was.
\* With an invalid name the failure is the one of the name, with the same frame.
C13_ChecksFirst ==
    \A name \in Names, args \in RejectedArgs :
        \A r \in CreateR(Disk, name, args) :
            /\ r.err # Nil
            /\ r.d = Disk
            /\ r.calls = <<>>
            /\ name \in ValidNames =>
                 r.err = Errorf(IF args.size < MinSize
                                THEN "requested size is smaller than minimum"
                                ELSE "only xfs and ext4 filesystems are supported")

\* C13 witness: Create has rejected a size below the minimum for a valid name,
\* and there is still no data directory.
C13_Witness ==
    /\ last.op = "Create"
    /\ last.name \in ValidNames
    /\ last.err = Errorf("requested size is smaller than minimum")
    /\ ~dataDir /\ files = {}

MountFailed == {"cannot create mount point dir", "cannot mount data file"}

\* C14: a Mount that fails, its removal of the lease marker not failing, leaves
\* the lease markers exactly as they were before the call.  A Mount fails with
\* "cannot create mount point dir" or "cannot mount data file" exactly when it
\* found zero leases and the creation of the mountpoint directory or the mount
\* utility failed, and then the marker it created is removed again, provided
\* that removal works.
C14_FailedMountKeepsLeases ==
    \A name \in ValidNames, lease \in LeaseIds :
        \A r \in MountR(Disk, name, lease) :
            /\ (r.err # Nil /\ "rmLease" \notin r.flt) => r.d.leases = Disk.leases
            /\ (r.flt \cap {"mkdirMount", "mount"} # {}) =>
                   (r.err # Nil /\ Head(r.err) \in MountFailed)
            /\ (r.err # Nil /\ Head(r.err) \in MountFailed) =>
                   /\ Held(name) = {}
                   /\ "rmLease" \notin r.flt => LeasesOf(r.d, name) = {}

\* C14 witness: a Mount that found zero leases has failed at the mount utility
\* and no lease marker is left.
C14_Witness ==
    /\ last.op = "Mount"
    /\ last.err # Nil /\ Head(last.err) = "cannot mount data file"
    /\ last.calls = <<"mount">>
    /\ last.pre = {}
    /\ Held(last.name) = {}

\* The failures of UnMount after the release of the lease
UnmountFailed == {"cannot figure out if it's used somewhere else",
                  "cannot remove its state dir",
                  "cannot unmount data file",
                  "cannot remove mount point dir"}

\* C15: when a step of UnMount after the removal of the lease marker fails
\* (the read of the mount status, the removal of the state directory, umount,
\* the removal of the mountpoint directory), UnMount returns that step's error
\* and the released marker stays removed; an UnMount that removes the
\* mountpoint directory has run umount with success; and when umount is
\* invoked the state directory is already gone.
C15_NoRollback ==
    \A name \in ValidNames, lease \in LeaseIds :
        \A r \in UnMountR(Disk, name, lease) :
            /\ (r.flt \cap {"readdir", "rmStateDir", "umount", "rmMountDir"} # {}) =>
                   (r.err # Nil /\ Head(r.err) \in UnmountFailed)
            /\ (r.err # Nil /\ Head(r.err) \in UnmountFailed) =>
                   /\ lease \in Held(name)
                   /\ lease \notin LeasesOf(r.d, name)
                   /\ r.d.leases = RemoveLease(Disk, name, lease).leases
            /\ (name \in Disk.mountDirs /\ name \notin r.d.mountDirs) =>
                   /\ Invoked(r, "umount")
                   /\ name \in Disk.mounted /\ name \notin r.d.mounted
                   /\ r.err = Nil
            /\ Invoked(r, "umount") => name \notin r.d.stateDirs

\* C15 witness: an UnMount of the last lease has failed at umount: the lease
\* is released, the state directory is gone, the mountpoint directory is there.
C15_Witness ==
    /\ last.op = "UnMount"
    /\ last.err # Nil /\ Head(last.err) = "cannot unmount data file"
    /\ last.lease # {} /\ last.lease = last.pre
    /\ Held(last.name) = {}
    /\ last.name \notin stateDirs
    /\ last.name \in mountDirs

\* C16: a Mount or UnMount call, whatever it returns, leaves the data
\* directory and its files (paths, and so filesystem types, and sizes) as they
\* were; a Get or List call leaves the whole disk as it was.
C16_Frame ==
    [][/\ last'.op \in {"Mount", "UnMount"} => (files' = files /\ dataDir' = dataDir)
       /\ last'.op \in {"Get", "List"} => UNCHANGED diskVars]_vars

\* C16 witness: an UnMount that ran umount has returned and the volume is
\* still there.
C16_Witness ==
    /\ last.op = "UnMount"
    /\ last.calls = <<"umount">>
    /\ last.err = Nil
    /\ Existing(last.name)

\* A call on a volume that is not there: the failure and the frame
NotFoundResult(r) ==
    /\ r.err # Nil
    /\ Cause(r.err) = "VolumeNotFound"
    /\ r.d = Disk
    /\ r.calls = <<>>

\* C17: for a valid name without a backing file, Get fails with
\* VolumeNotFound, and every Mount, UnMount and Delete fails with an error
\* whose cause is VolumeNotFound, changes nothing on the disk and invokes no
\* utility.
C17_NotFound ==
    \A name \in ValidNames :
        Glob(Disk, name) = {} =>
            /\ GetR(Disk, name).err = Errorf("VolumeNotFound")
            /\ \A lease \in LeaseIds :
                   /\ \A r \in MountR(Disk, name, lease) : NotFoundResult(r)
                   /\ \A r \in UnMountR(Disk, name, lease) : NotFoundResult(r)
            /\ \A r \in DeleteR(Disk, name) : NotFoundResult(r)

\* C17 witness: a Mount has failed with VolumeNotFound for a valid name, on a
\* data directory that exists.
C17_Witness ==
    /\ last.op = "Mount"
    /\ last.name \in ValidNames
    /\ last.err # Nil /\ Cause(last.err) = "VolumeNotFound"
    /\ dataDir
    /\ Glob(Disk, last.name) = {}

\* The allocation of Create's data file failed: truncate, fallocate for lack
\* of space, or dd after another failure of fallocate.
AllocationFailed(r) == r.flt \cap {"truncate", "fallocateNoSpace", "dd"} # {}

\* C18: for a request Create accepts, the first utility is truncate when
\* sparse and fallocate when not.  Sparse: no fallocate and no dd, and a
\* failing truncate fails Create with nothing else run.  Not sparse: no
\* truncate; a fallocate failing for lack of space fails Create with nothing
\* else run; dd runs exactly once when fallocate failed otherwise and never
\* else, and a failing dd fails Create with nothing else run.  mkfs runs only
\* after an allocation that succeeded, and after a failed allocation no file is
\* left at the data file path, provided the removal works.
C18_AllocationChain ==
    \A name \in ValidNames, args \in CreateArgs :
        (~SizeTooSmall(args.size) /\ Supported(args.fs)) =>
            \A r \in CreateR(Disk, name, args) :
                /\ r.calls # <<>> =>
                       r.calls[1] = (IF args.sparse THEN "truncate" ELSE "fallocate")
                /\ CountOf(r.calls, "truncate") = (IF args.sparse /\ r.calls # <<>> THEN 1 ELSE 0)
                /\ CountOf(r.calls, "fallocate") = (IF ~args.sparse /\ r.calls # <<>> THEN 1 ELSE 0)
                /\ CountOf(r.calls, "dd") = (IF "fallocate" \in r.flt THEN 1 ELSE 0)
                /\ args.sparse => r.flt \cap {"fallocate", "fallocateNoSpace", "dd"} = {}
                /\ "truncate" \in r.flt => (r.err # Nil /\ r.calls = <<"truncate">>)
                /\ "fallocateNoSpace" \in r.flt =>
                       (r.err # Nil /\ r.calls = <<"fallocate">>)
                /\ "dd" \in r.flt => (r.err # Nil /\ r.calls = <<"fallocate", "dd">>)
                /\ Invoked(r, "mkfs") => ~AllocationFailed(r)
                /\ (AllocationFailed(r) /\ "rmData" \notin r.flt) =>
                       \A f \in r.d.files : f.path # DataFilePath(name, args.fs)

\* C18 witness: a Create that is not sparse has succeeded through the zero-fill
\* fallback.
C18_Witness ==
    /\ last.op = "Create"
    /\ last.err = Nil
    /\ last.calls = <<"fallocate", "dd", "mkfs">>
    /\ Existing(last.name)

\* C19: a Create for a name without a backing file that returns an error
\* after its first utility ran leaves no backing file for the name, provided
\* its removal of the data file works; a Create, whatever it returns, leaves
\* the lease "driver" unrecorded, provided no removal of a lease marker fails;
\* and a successful Create with a uid, gid or mode on a volume without leases
\* has run mount and umount and leaves zero leases, no state directory, no
\* mountpoint directory and nothing mounted.
C19_NoResidue ==
    \A name \in ValidNames, args \in CreateArgs :
        \A r \in CreateR(Disk, name, args) :
            /\ (/\ Glob(Disk, name) = {}
                /\ r.err # Nil
                /\ r.calls # <<>>
                /\ "rmData" \notin r.flt) => Glob(r.d, name) = {}
            /\ (DriverLease \notin Held(name) /\ "rmLease" \notin r.flt) =>
                   DriverLease \notin LeasesOf(r.d, name)
            /\ (r.err = Nil /\ args.own # NoOwner /\ Held(name) = {}) =>
                   /\ Invoked(r, "mount") /\ Invoked(r, "umount")
                   /\ LeasesOf(r.d, name) = {}
                   /\ name \notin r.d.stateDirs
                   /\ name \notin r.d.mountDirs
                   /\ name \notin r.d.mounted

\* C19 witness: a Create with a mode has failed at chmod, after its mount under
\* the lease "driver", and has left no backing file, lease or state directory.
C19_Witness ==
    /\ last.op = "Create"
    /\ last.err # Nil /\ Head(last.err) = "cannot adjust volume root permissions"
    /\ Invoked(last, "mount") /\ Invoked(last, "umount")
    /\ Glob(Disk, last.name) = {}
    /\ Held(last.name) = {}
    /\ last.name \notin stateDirs

\* Request p found its volume: a Mount has read the mount status, an Unmount
\* has removed its lease marker.
Resolved(p) == req[p].vol # NoVol

\* C20: when two driver requests for the same volume, under distinct lease
\* identifiers, have both found the volume and returned from the manager, and
\* neither has unlocked yet: if they are Mounts, both return nil and
\* <mountDir>/<name>, both lease markers are recorded, and mount was invoked
\* at most once, and once if one of them found the volume not mounted; if they
\* are Unmounts, both having removed their lease marker, neither fails and
\* umount was invoked at most once.
C20_ConcurrentSafe ==
    \A p, q \in Procs :
        (/\ p # q
         /\ pc[p] = "returned" /\ pc[q] = "returned"
         /\ req[p].op = req[q].op
         /\ req[p].name = req[q].name
         /\ req[p].lease # req[q].lease
         /\ Resolved(p) /\ Resolved(q)) =>
            /\ req[p].op = "Mount" =>
                   /\ req[p].err = Nil
                   /\ req[p].path = MountPointPath(req[p].name)
                   /\ req[p].lease \subseteq Held(req[p].name)
                   /\ CountOf(req[p].calls \o req[q].calls, "mount") <= 1
                   /\ ~req[p].im.mounted =>
                          CountOf(req[p].calls \o req[q].calls, "mount") = 1
            /\ req[p].op = "Unmount" =>
                   /\ req[p].err = Nil
                   /\ CountOf(req[p].calls \o req[q].calls, "umount") <= 1

\* C21: after any sequence of manager calls, failing ones and a Create for an
\* existing name included, every volume with at least one lease marker still
\* has a backing file: no call removes the backing file of a volume while a
\* lease on it is held.
C21_LeasedHasBackingFile ==
    \A n \in ValidNames : Held(n) # {} => Glob(Disk, n) # {}

\* The calls the volume has to recover from: a Mount of an existing volume
\* without leases that failed at the mountpoint mkdir or at the mount utility,
\* and an UnMount of the last lease that failed at the umount utility.
MountStepFailed ==
    /\ last.op = "Mount" /\ last.name \in ValidNames /\ last.pre = {}
    /\ last.err # Nil /\ last.err[1] \in MountFailed
FinalUmountFailed ==
    /\ last.op = "UnMount" /\ last.name \in ValidNames
    /\ last.err # Nil /\ last.err[1] = "cannot unmount data file"

\* C22: a failed Mount does not disable a volume.  After a Mount of an existing
\* unmounted volume failed at the mountpoint mkdir or at the mount utility, and
\* after a final UnMount whose umount step failed, a Mount of the same volume
\* in which every step of the environment works succeeds, with no cleanup in
\* between.
C22_MountRecovers ==
    (MountStepFailed \/ FinalUmountFailed) =>
        \A lease \in ConsumerIds :
            \A r \in Outcomes(MountR(Disk, last.name, lease), TRUE) :
                /\ r.err = Nil
                /\ r.path = MountPointPath(last.name)

\* A filesystem is mounted at the mountpoint of the volume.
PhysicallyMounted(name) == name \in mounted

\* C23: Delete never removes the backing file of a volume that is physically
\* mounted.  In every reachable state, the state after a final UnMount whose
\* umount utility failed included, a volume with zero lease markers is not
\* physically mounted, and no Delete of a physically mounted volume changes
\* the backing files.
C23_DeleteSparesMounted ==
    \A n \in ValidNames :
        /\ Held(n) = {} => ~PhysicallyMounted(n)
        /\ PhysicallyMounted(n) =>
               \A r \in DeleteR(Disk, n) : r.d.files = files

====
